---- MODULE Spec2Model ----
(***************************************************************************)
(* libbitcoin network seeder (src/network/seeder.cpp).                     *)
(*                                                                         *)
(* seeder::start fans out one connect per configured seed and collapses    *)
(* the per-seed outcomes through async_parallel into one call of the       *)
(* caller's handle_seeded.  Every handler of seeder.cpp is one action; the *)
(* external collaborators (peer, handshake, channel, hosts) are the        *)
(* environment that chooses when each registered callback is delivered and *)
(* with which error code.                                                  *)
(*                                                                         *)
(* The seeder keeps no table of its attempts: an attempt exists only as    *)
(* the callbacks bound for it, and its endpoint is used for log lines      *)
(* alone.  The attempts in flight are therefore a bag of attempt states.   *)
(***************************************************************************)
EXTENDS Integers, Sequences, FiniteSets, Bags, TLC

\* ------------------------------------------------------------------ bounds
MaxSeeds == 2
MaxAddress == 2
MaxMessage == 1
MaxInject == 1
MaxFaultSeeds == 2
MaxStrandSeeds == 1

\* ------------------------------------------------------------- error codes
success == "success"
operation_failed == "operation_failed"
channel_stopped == "channel_stopped"
bad_stream == "bad_stream"

\* The non-zero codes an external operation may complete with.
Errors == {channel_stopped, bad_stream}
Codes == {success} \cup Errors

\* Network addresses and the address lists an address message may carry
\* (message.addresses is a vector: order and duplicates are kept).
Addresses == 1..MaxAddress
Messages == UNION {[1..n -> Addresses] : n \in 0..MaxMessage}

VARIABLES
    pc,             \* "constructed" before seeder::start, "started" after
    seeds_,         \* seeder::seeds_, the configured seed list
    host_pool_,     \* hosts: the set of addresses in the registry
    host_count,     \* host_count bound into handle_synced by start
    barrier,        \* the async_parallel completion object
    results,        \* the codes the caller's handle_seeded was invoked with
    attempts,       \* the seed attempts: a bag of attempt states
    stores,         \* host_pool_.store calls in flight: address -> count
    signal_codes,   \* the codes the seed attempts passed to the barrier
    synced,         \* the codes handle_synced passed to handle_seeded
    hosts_start,    \* the registry as it was when the seeder was constructed
    injected,       \* barrier signals raised by the fault harness
    running         \* the handlers in execution: a bag of handler names

vars == <<pc, seeds_, host_pool_, host_count, barrier, results, attempts,
          stores, signal_codes, synced, hosts_start, injected, running>>

\* What a call of the completion callback may change besides the attempt.
report_vars == <<barrier, results, signal_codes, synced>>

\* ---------------------------------------------------------- seed attempts
\* One attempt: where each of its registered callbacks stands, whether
\* node->stop was called for it, and how often it called its completion
\* callback.
\*   network_    network_.connect:        "pending", "error", "ok"
\*   handshake_  handshake_.ready:        "none", "pending", "error", "ok"
\*   send        node->send(get_address): "none", "pending", "error", "ok"
\*   address     node->subscribe_address: "none", "subscribed", "error", "ok"
\*   stop        node->subscribe_stop:    "none", "subscribed", or the code
\*                                        the notification was delivered with
\*   trace       the calls handle_connected, handle_handshake and
\*               handle_receive made for this attempt, in program order
\*               (handle_stop and handle_send make one call at most, the
\*               completion callback, which signals counts)
Contacting ==
    [network_ |-> "pending", handshake_ |-> "none", send |-> "none",
     address |-> "none", stop |-> "none", stop_requested |-> FALSE,
     signals |-> 0, trace |-> <<>>]

\* The attempts with one attempt in state r moved to state r2.
replace(bag, r, r2) == (bag (-) SetToBag({r})) (+) SetToBag({r2})

\* The attempt r after one more call of its completion callback.
signalled(r) == [r EXCEPT !.signals = @ + 1]

\* The attempt r after its handler made the calls seq, in that order.
called(r, seq) == [r EXCEPT !.trace = @ \o seq]

\* -------------------------------------------------------------- hosts
\* hosts::size
size == Cardinality(host_pool_)

\* ------------------------------------------------ seeder::handle_synced
\* The code handle_synced passes to the caller's handle_seeded.
\* (mutant: the growth test is not strict)
handle_synced_ge(ec, host_start_count) ==
    IF ec # success THEN ec
    ELSE IF size >= host_start_count THEN success ELSE operation_failed

\* (mutant: the barrier's error is not propagated)
handle_synced_drop(ec, host_start_count) ==
    IF size > host_start_count THEN success ELSE operation_failed

handle_synced(ec, host_start_count) ==
    IF ec # success THEN ec
    ELSE IF size > host_start_count THEN success ELSE operation_failed

\* ------------------------------------------------------ async_parallel
\* The barrier object async_parallel(handler, required) returns.  A barrier
\* of size 0 fires its handler on construction.
async_parallel(required) ==
    [required |-> required, arrived |-> 0, error |-> success,
     fired |-> (required = 0)]

\* One call of the barrier's callback with code ec: the barrier after it.
\* The call that brings arrived to required fires; later calls do nothing.
arrive(b, ec) ==
    IF b.fired THEN b
    ELSE [b EXCEPT !.arrived = @ + 1,
                   !.error = IF @ = success THEN ec ELSE @,
                   !.fired = (b.arrived + 1 = b.required)]

\* Whether that call invokes the final handler (handle_synced).
fires(b, ec) == ~b.fired /\ arrive(b, ec).fired

\* One call of the completion callback async_parallel returned, with code
\* ec: the barrier counts it and, when it fires, runs handle_synced, which
\* calls the caller's handle_seeded.
signal(ec) ==
    /\ barrier' = arrive(barrier, ec)
    /\ results' = IF fires(barrier, ec)
                  THEN Append(results,
                              handle_synced(arrive(barrier, ec).error, host_count))
                  ELSE results
    /\ synced' = IF fires(barrier, ec)
                 THEN Append(synced,
                             handle_synced(arrive(barrier, ec).error, host_count))
                 ELSE synced

\* The completion callback as a seed attempt calls it.
completion_callback(ec) ==
    /\ signal(ec)
    /\ signal_codes' = signal_codes \cup {ec}

\* ------------------------------------------------------------ hosts::store
\* The registry after one store of address a completes with code ec: a
\* failed store adds nothing, a stored address is held once.
store(pool, a, ec) == IF ec = success THEN pool \cup {a} ELSE pool

\* ------------------------------------------------------------------- Init
\* The seeder as constructed: a seed list of N >= 0 endpoints, a registry
\* that already holds the addresses Known, nothing started.  The last
\* address is new to the registry.
Known == 1..(MaxAddress - 1)

NoBarrier == [required |-> 0, arrived |-> 0, error |-> success, fired |-> FALSE]

Constructed(max) ==
    /\ pc = "constructed"
    /\ seeds_ \in {[i \in 1..n |-> "seed"] : n \in 0..max}
    /\ host_pool_ = Known
    /\ hosts_start = host_pool_
    /\ host_count = 0
    /\ barrier = NoBarrier
    /\ results = <<>>
    /\ attempts = EmptyBag
    /\ stores = [a \in Addresses |-> 0]
    /\ signal_codes = {}
    /\ synced = <<>>
    /\ injected = 0
    /\ running = EmptyBag

Init == Constructed(MaxSeeds)

\* ---------------------------------------------------------- seeder::start
\* The empty-list branch calls handle_seeded(success) and falls through:
\* host_count is read, the barrier is built with seed_count and one connect
\* is issued per seed.
\* (mutant: the barrier is built one larger than the seed count)
start_oversized ==
    /\ pc = "constructed"
    /\ pc' = "started"
    /\ host_count' = size
    /\ barrier' = async_parallel(Len(seeds_) + 1)
    /\ results' = IF seeds_ = <<>> THEN <<success>> ELSE <<>>
    /\ synced' = <<>>
    /\ attempts' = IF seeds_ = <<>> THEN EmptyBag
                   ELSE [r \in {Contacting} |-> Len(seeds_)]
    /\ UNCHANGED <<seeds_, host_pool_, stores, signal_codes, hosts_start,
                   injected>>

start ==
    /\ pc = "constructed"
    /\ pc' = "started"
    /\ host_count' = size
    /\ barrier' = async_parallel(Len(seeds_))
    /\ LET early == IF seeds_ = <<>> THEN <<success>> ELSE <<>>
           fired == async_parallel(Len(seeds_)).fired
       IN /\ results' = IF fired
                        THEN Append(early, handle_synced(success, size))
                        ELSE early
          /\ synced' = IF fired THEN <<handle_synced(success, size)>> ELSE <<>>
    /\ attempts' = IF seeds_ = <<>> THEN EmptyBag
                   ELSE [r \in {Contacting} |-> Len(seeds_)]
    /\ UNCHANGED <<seeds_, host_pool_, stores, signal_codes, hosts_start,
                   injected>>

\* ------------------------------------------------ seeder::handle_connected
\* Delivery of the connect callback of an attempt in state r, with code ec.
\* (mutant: the connect error is passed on to the completion callback)
handle_connected_leak(r, ec) ==
    /\ r.network_ = "pending"
    /\ IF ec # success
       THEN /\ attempts' = replace(attempts, r,
                               called(signalled([r EXCEPT !.network_ = "error"]),
                                      <<"handle_seeded">>))
            /\ completion_callback(ec)
       ELSE /\ attempts' = replace(attempts, r,
                               called([r EXCEPT !.network_ = "ok",
                                                !.stop = "subscribed",
                                                !.handshake_ = "pending"],
                                      <<"subscribe_stop", "ready", "start">>))
            /\ UNCHANGED report_vars
    /\ UNCHANGED <<pc, seeds_, host_pool_, host_count, stores, hosts_start,
                   injected>>

\* (mutant: the error branch does not return)
handle_connected_fallthrough(r, ec) ==
    /\ r.network_ = "pending"
    /\ IF ec # success
       THEN /\ attempts' = replace(attempts, r,
                               called(signalled([r EXCEPT !.network_ = "error",
                                                          !.stop = "subscribed",
                                                          !.handshake_ = "pending"]),
                                      <<"handle_seeded", "subscribe_stop",
                                        "ready", "start">>))
            /\ completion_callback(success)
       ELSE /\ attempts' = replace(attempts, r,
                               called([r EXCEPT !.network_ = "ok",
                                                !.stop = "subscribed",
                                                !.handshake_ = "pending"],
                                      <<"subscribe_stop", "ready", "start">>))
            /\ UNCHANGED report_vars
    /\ UNCHANGED <<pc, seeds_, host_pool_, host_count, stores, hosts_start,
                   injected>>

\* (mutant: the session is started before the handlers are registered)
handle_connected_start_first(r, ec) ==
    /\ r.network_ = "pending"
    /\ IF ec # success
       THEN /\ attempts' = replace(attempts, r,
                               called(signalled([r EXCEPT !.network_ = "error"]),
                                      <<"handle_seeded">>))
            /\ completion_callback(success)
       ELSE /\ attempts' = replace(attempts, r,
                               called([r EXCEPT !.network_ = "ok",
                                                !.stop = "subscribed",
                                                !.handshake_ = "pending"],
                                      <<"start", "subscribe_stop", "ready">>))
            /\ UNCHANGED report_vars
    /\ UNCHANGED <<pc, seeds_, host_pool_, host_count, stores, hosts_start,
                   injected>>

\* On an error: handle_seeded(success), return.  Otherwise
\* node->subscribe_stop, handshake_.ready, node->start.
handle_connected(r, ec) ==
    /\ r.network_ = "pending"
    /\ IF ec # success
       THEN /\ attempts' = replace(attempts, r,
                               called(signalled([r EXCEPT !.network_ = "error"]),
                                      <<"handle_seeded">>))
            /\ completion_callback(success)
       ELSE /\ attempts' = replace(attempts, r,
                               called([r EXCEPT !.network_ = "ok",
                                                !.stop = "subscribed",
                                                !.handshake_ = "pending"],
                                      <<"subscribe_stop", "ready", "start">>))
            /\ UNCHANGED report_vars
    /\ UNCHANGED <<pc, seeds_, host_pool_, host_count, stores, hosts_start,
                   injected>>

\* ----------------------------------------------------- seeder::handle_stop
\* Delivery of the session-ended notification of an attempt, with code ec.
handle_stop(r, ec) ==
    /\ r.stop = "subscribed"
    /\ IF ec # success
       THEN /\ attempts' = replace(attempts, r, signalled([r EXCEPT !.stop = ec]))
            /\ completion_callback(success)
       ELSE /\ attempts' = replace(attempts, r, [r EXCEPT !.stop = ec])
            /\ UNCHANGED report_vars
    /\ UNCHANGED <<pc, seeds_, host_pool_, host_count, stores, hosts_start,
                   injected>>

\* ------------------------------------------------ seeder::handle_handshake
\* Delivery of the handshake completion of an attempt, with code ec.  On an
\* error the handler logs and returns.
\* (mutant: the address request is sent before the subscription is made)
handle_handshake_send_first(r, ec) ==
    /\ r.handshake_ = "pending"
    /\ IF ec # success
       THEN attempts' = replace(attempts, r, [r EXCEPT !.handshake_ = "error"])
       ELSE attempts' = replace(attempts, r,
                            called([r EXCEPT !.handshake_ = "ok",
                                             !.address = "subscribed",
                                             !.send = "pending"],
                                   <<"send", "subscribe_address">>))
    /\ UNCHANGED report_vars
    /\ UNCHANGED <<pc, seeds_, host_pool_, host_count, stores, hosts_start,
                   injected>>

\* Otherwise node->subscribe_address, node->send(get_address).
handle_handshake(r, ec) ==
    /\ r.handshake_ = "pending"
    /\ IF ec # success
       THEN attempts' = replace(attempts, r, [r EXCEPT !.handshake_ = "error"])
       ELSE attempts' = replace(attempts, r,
                            called([r EXCEPT !.handshake_ = "ok",
                                             !.address = "subscribed",
                                             !.send = "pending"],
                                   <<"subscribe_address", "send">>))
    /\ UNCHANGED report_vars
    /\ UNCHANGED <<pc, seeds_, host_pool_, host_count, stores, hosts_start,
                   injected>>

\* ----------------------------------------------------- seeder::handle_send
\* Delivery of the send completion of an attempt's address request.
handle_send(r, ec) ==
    /\ r.send = "pending"
    /\ IF ec # success
       THEN /\ attempts' = replace(attempts, r, signalled([r EXCEPT !.send = "error"]))
            /\ completion_callback(success)
       ELSE /\ attempts' = replace(attempts, r, [r EXCEPT !.send = "ok"])
            /\ UNCHANGED report_vars
    /\ UNCHANGED <<pc, seeds_, host_pool_, host_count, stores, hosts_start,
                   injected>>

\* -------------------------------------------------- seeder::handle_receive
\* The store calls in flight after one store per address of message.
submit(pending, message) ==
    [a \in DOMAIN pending |->
        pending[a] + Cardinality({i \in DOMAIN message : message[i] = a})]

\* Delivery of an attempt's address notification: code ec, list message.
\* (mutant: the success branch leaves the signal to the store completions)
handle_receive_deferred(r, ec, message) ==
    /\ r.address = "subscribed"
    /\ IF ec # success
       THEN /\ attempts' = replace(attempts, r,
                               called(signalled([r EXCEPT !.address = "error"]),
                                      <<"handle_seeded">>))
            /\ completion_callback(success)
            /\ UNCHANGED stores
       ELSE /\ stores' = submit(stores, message)
            /\ UNCHANGED report_vars
            /\ attempts' = replace(attempts, r,
                               called([r EXCEPT !.address = "ok",
                                                !.stop_requested = TRUE],
                                      <<"store", "stop">>))
    /\ UNCHANGED <<pc, seeds_, host_pool_, host_count, hosts_start, injected>>

\* (mutant: the session is stopped before the stores and the signal)
handle_receive_stop_first(r, ec, message) ==
    /\ r.address = "subscribed"
    /\ IF ec # success
       THEN /\ attempts' = replace(attempts, r,
                               called(signalled([r EXCEPT !.address = "error"]),
                                      <<"handle_seeded">>))
            /\ completion_callback(success)
            /\ UNCHANGED stores
       ELSE /\ stores' = submit(stores, message)
            /\ completion_callback(success)
            /\ attempts' = replace(attempts, r,
                               called(signalled([r EXCEPT !.address = "ok",
                                                          !.stop_requested = TRUE]),
                                      <<"stop", "store", "handle_seeded">>))
    /\ UNCHANGED <<pc, seeds_, host_pool_, host_count, hosts_start, injected>>

\* On an error: handle_seeded(success), return.  Otherwise the loop of
\* host_pool_.store over message.addresses ("store" stands for the loop),
\* handle_seeded(success), node->stop(channel_stopped).
handle_receive(r, ec, message) ==
    /\ r.address = "subscribed"
    /\ IF ec # success
       THEN /\ attempts' = replace(attempts, r,
                               called(signalled([r EXCEPT !.address = "error"]),
                                      <<"handle_seeded">>))
            /\ completion_callback(success)
            /\ UNCHANGED stores
       ELSE /\ stores' = submit(stores, message)
            /\ completion_callback(success)
            /\ attempts' = replace(attempts, r,
                               called(signalled([r EXCEPT !.address = "ok",
                                                          !.stop_requested = TRUE]),
                                      <<"store", "handle_seeded", "stop">>))
    /\ UNCHANGED <<pc, seeds_, host_pool_, host_count, hosts_start, injected>>

\* ---------------------------------------------------- seeder::handle_store
\* Completion of one store of address a with code ec: the registry takes
\* the address on success; the handler only logs.
\* (mutant: a failed store is reported to the completion callback)
handle_store_escalate(a, ec) ==
    /\ stores[a] > 0
    /\ stores' = [stores EXCEPT ![a] = @ - 1]
    /\ host_pool_' = store(host_pool_, a, ec)
    /\ IF ec # success
       THEN completion_callback(ec)
       ELSE UNCHANGED report_vars
    /\ UNCHANGED <<pc, seeds_, host_count, attempts, hosts_start, injected>>

handle_store(a, ec) ==
    /\ stores[a] > 0
    /\ stores' = [stores EXCEPT ![a] = @ - 1]
    /\ host_pool_' = store(host_pool_, a, ec)
    /\ UNCHANGED report_vars
    /\ UNCHANGED <<pc, seeds_, host_count, attempts, hosts_start, injected>>

\* ------------------------------------------------------------------- Next
\* Each registered callback is delivered once, in any order, with success
\* or a failure, and its handler runs as one step.
\* The code an operation fails with is only logged, so one failure code
\* stands for them all, except for the session-ended notification, whose
\* code handle_stop inspects.
Outcomes == {success, bad_stream}

Next ==
    \/ start /\ UNCHANGED running
    \/ \E r \in BagToSet(attempts), ec \in Outcomes :
          handle_connected(r, ec) /\ UNCHANGED running
    \/ \E r \in BagToSet(attempts), ec \in Codes :
          handle_stop(r, ec) /\ UNCHANGED running
    \/ \E r \in BagToSet(attempts), ec \in Outcomes :
          handle_handshake(r, ec) /\ UNCHANGED running
    \/ \E r \in BagToSet(attempts), ec \in Outcomes :
          handle_send(r, ec) /\ UNCHANGED running
    \/ \E r \in BagToSet(attempts) :
          \/ handle_receive(r, bad_stream, <<>>) /\ UNCHANGED running
          \/ \E message \in Messages :
                handle_receive(r, success, message) /\ UNCHANGED running
    \/ \E a \in Addresses, ec \in Outcomes :
          handle_store(a, ec) /\ UNCHANGED running

Spec == Init /\ [][Next]_vars

\* ---------------------------------------------------------- fault harness
\* No handler of seeder.cpp passes an error to the completion callback.  To
\* exercise the barrier's and handle_synced's error path, the harness lets
\* one more holder of the completion callback call it with a failure code.
inject(ec) ==
    /\ pc = "started"
    /\ ~barrier.fired
    /\ injected < MaxInject
    /\ injected' = injected + 1
    /\ signal(ec)
    /\ UNCHANGED <<pc, seeds_, host_pool_, host_count, attempts, stores,
                   signal_codes, hosts_start, running>>

FaultNext ==
    \/ Next
    \/ \E ec \in Outcomes \ {success} : inject(ec)

FaultInit == Constructed(MaxFaultSeeds)

FaultSpec == FaultInit /\ [][FaultNext]_vars

\* ------------------------------------------------------- handler execution
\* The handlers the source binds through strand_.wrap: handle_stop and
\* handle_handshake in handle_connected, handle_receive and handle_send in
\* handle_handshake, handle_store in handle_receive.  handle_connected is
\* bound to network_.connect unwrapped.
\* (mutant: the session-ended observer is bound without the strand)
strand_wrap_except_stop ==
    {"handle_handshake", "handle_receive", "handle_send", "handle_store"}

strand_wrap ==
    {"handle_stop", "handle_handshake", "handle_receive", "handle_send",
     "handle_store"}

\* Handler h begins to execute.  A handler wrapped by the strand begins only
\* when no wrapped handler is executing; an unwrapped one begins in the
\* context that raised its event.
enter(h) ==
    /\ h \in strand_wrap => \A g \in BagToSet(running) : g \notin strand_wrap
    /\ running' = running (+) SetToBag({h})

\* Handler h returns.
leave(h) ==
    /\ BagIn(h, running)
    /\ running' = running (-) SetToBag({h})
    /\ UNCHANGED <<pc, seeds_, host_pool_, host_count, barrier, results,
                   attempts, stores, signal_codes, synced, hosts_start,
                   injected>>

\* The run with each handler's execution extended in time: the events are
\* raised in any order from any context, a handler takes effect when it
\* begins and returns in a later step.
StrandNext ==
    \/ start /\ UNCHANGED running
    \/ \E r \in BagToSet(attempts), ec \in Outcomes :
          enter("handle_connected") /\ handle_connected(r, ec)
    \/ \E r \in BagToSet(attempts), ec \in Codes :
          enter("handle_stop") /\ handle_stop(r, ec)
    \/ \E r \in BagToSet(attempts), ec \in Outcomes :
          enter("handle_handshake") /\ handle_handshake(r, ec)
    \/ \E r \in BagToSet(attempts), ec \in Outcomes :
          enter("handle_send") /\ handle_send(r, ec)
    \/ \E r \in BagToSet(attempts) :
          \/ enter("handle_receive") /\ handle_receive(r, bad_stream, <<>>)
          \/ \E message \in Messages :
                enter("handle_receive") /\ handle_receive(r, success, message)
    \/ \E a \in Addresses, ec \in Outcomes :
          enter("handle_store") /\ handle_store(a, ec)
    \/ \E h \in BagToSet(running) : leave(h)

StrandInit == Constructed(MaxStrandSeeds)

StrandSpec == StrandInit /\ [][StrandNext]_vars

\* ================================================================ claims
\* The attempt states in flight, and measures over them.
Attempts == BagToSet(attempts)

RECURSIVE SumSignals(_)
SumSignals(S) ==
    IF S = {} THEN 0
    ELSE LET r == CHOOSE x \in S : TRUE
         IN r.signals * CopiesIn(r, attempts) + SumSignals(S \ {r})

\* All calls of the completion callback made by the seed attempts.
TotalSignals == SumSignals(Attempts)

\* No callback of attempt r is still to be delivered.
Settled(r) ==
    /\ r.network_ # "pending"
    /\ r.handshake_ # "pending"
    /\ r.send # "pending"
    /\ r.address # "subscribed"
    /\ r.stop # "subscribed"

\* Every external operation the run issued has delivered its callback.
Quiescent ==
    /\ pc = "started"
    /\ \A r \in Attempts : Settled(r)
    /\ \A a \in Addresses : stores[a] = 0

\* C1: over a whole run, whatever the seed list and the interleaving of the
\* callbacks, the caller's handle_seeded is invoked at most once.
C1_SeededAtMostOnce == Len(results) <= 1

\* C2: once every external operation of the run has delivered its callback
\* (with success or an error), the caller's handle_seeded has been invoked:
\* the completion is never left pending.
C2_SeededWhenAllDelivered == Quiescent => Len(results) >= 1

\* C3: a seed attempt invokes its completion callback at most once, for any
\* interleaving of its connect, handshake, send, receive and stop callbacks.
C3_AttemptSignalsAtMostOnce == \A r \in Attempts : r.signals <= 1

\* C4: an attempt whose handshake completed with an error has signalled the
\* barrier, without depending on any other event.
C4_HandshakeFailureSignals ==
    \A r \in Attempts : r.handshake_ = "error" => r.signals >= 1

C6_EmptyListReturnsEarly ==
    (pc = "started" /\ seeds_ = <<>>) =>
        /\ results = <<success>>
        /\ barrier = NoBarrier
        /\ synced = <<>>
        /\ attempts = EmptyBag

\* C7: when every one of the N >= 1 attempts failed at the connect stage,
\* the run has reported operation_failed ("no new hosts") and the registry
\* holds what it held at run start.
AllConnectsFailed ==
    /\ pc = "started"
    /\ seeds_ # <<>>
    /\ \A r \in Attempts : r.network_ = "error"

C7_AllConnectsFailed ==
    AllConnectsFailed =>
        /\ results = <<operation_failed>>
        /\ size = Cardinality(hosts_start)
        /\ host_pool_ = hosts_start

\* C7 witness: two seeds, both refused.
C7_Witness == AllConnectsFailed /\ Len(seeds_) = 2

\* C8: when an attempt received an address list with an address new to the
\* registry, the run reports success, whatever the interleaving of the
\* store completions with the barrier signals and the final size check.
\* Stated for the runs in which the new address was stored (the registry has
\* grown and no store is in flight), where the claim's size part holds.
C8_NewAddressReportsSuccess ==
    (/\ Len(results) >= 1
     /\ \E r \in Attempts : r.address = "ok"
     /\ host_pool_ \ hosts_start # {}
     /\ \A a \in Addresses : stores[a] = 0)
        => results = <<success>>

\* C9: every barrier signal of a seed attempt carries no error, and the
\* result delivered to the caller is success or operation_failed, never the
\* code of a per-seed failure.
C9_SeedErrorsAbsorbed ==
    /\ signal_codes \subseteq {success}
    /\ \A i \in DOMAIN results : results[i] \in {success, operation_failed}

\* C9 witness: a run that met a connect failure, a send failure and a
\* receive failure and delivered its result.
C9_Witness ==
    /\ \E r \in Attempts : r.network_ = "error"
    /\ \E r \in Attempts : r.send = "error" /\ r.address = "error"
    /\ results # <<>>

\* C10: each firing of the barrier makes handle_synced deliver exactly one
\* result: the barrier's error unchanged when it is non-null; otherwise
\* success iff the registry at that moment is strictly larger than it was at
\* run start, else operation_failed.
C10_SyncedResult ==
    [][synced' # synced =>
          LET expected ==
                  IF barrier'.error # success THEN barrier'.error
                  ELSE IF Cardinality(host_pool_) > Cardinality(hosts_start)
                       THEN success ELSE operation_failed
          IN /\ synced' = Append(synced, expected)
             /\ results' # <<>>
             /\ results'[Len(results')] = expected
             /\ Len(results') \in {Len(results) + 1, Len(results) + 2}
             /\ (Len(results') = Len(results) + 2 => pc = "constructed")
    ]_vars

\* C10 witness: the barrier fired with an injected error after the registry
\* had grown, and the caller received that error.
C10_Witness ==
    /\ barrier.fired
    /\ barrier.error = bad_stream
    /\ size > host_count
    /\ results = <<bad_stream>>

\* ------------------------------------------------- a run with three seeds
\* Seeds A, B, C and a registry holding two of the five addresses C's peer
\* will return.  The environment delivers: one refused connect (A); two
\* connects and two handshakes that succeed; one failed send (B); one
\* successful send and one address message of five addresses (C); the
\* session-ended notification of C's own stop request; and every store with
\* success.  Which attempt takes which part, and the order of the
\* deliveries, are free.
ScenarioAddresses == 1..5
ScenarioKnown == {1, 2}
ScenarioMessage == <<1, 2, 3, 4, 5>>

\* The number of attempts in flight with field f at value v.
Count(f, v) ==
    BagCardinality([r \in {x \in BagToSet(attempts) : x[f] = v} |-> attempts[r]])

ScenarioInit ==
    /\ pc = "constructed"
    /\ seeds_ = <<"seed", "seed", "seed">>
    /\ host_pool_ = ScenarioKnown
    /\ hosts_start = host_pool_
    /\ host_count = 0
    /\ barrier = NoBarrier
    /\ results = <<>>
    /\ attempts = EmptyBag
    /\ stores = [a \in ScenarioAddresses |-> 0]
    /\ signal_codes = {}
    /\ synced = <<>>
    /\ injected = 0
    /\ running = EmptyBag

\* Attempt r is, or can still become, the attempt of seed B (seed C).
CanBeB(r) ==
    /\ r.send = "pending"
    /\ r.address = "subscribed"
    /\ Count("send", "error") = 0

CanBeC(r) ==
    /\ r.send \in {"pending", "ok"}
    /\ r.address \in {"subscribed", "ok"}
    /\ Count("send", "ok") + Count("address", "ok")
           = (IF r.send = "ok" THEN 1 ELSE 0) + (IF r.address = "ok" THEN 1 ELSE 0)

ScenarioNext ==
    \/ start /\ UNCHANGED running
    \/ \E r \in BagToSet(attempts) :
          /\ Count("network_", "error") = 0
          /\ handle_connected(r, bad_stream)
          /\ UNCHANGED running
    \/ \E r \in BagToSet(attempts) :
          /\ Count("network_", "ok") < 2
          /\ handle_connected(r, success)
          /\ UNCHANGED running
    \/ \E r \in BagToSet(attempts) :
          handle_handshake(r, success) /\ UNCHANGED running
    \/ \E r \in BagToSet(attempts) :
          CanBeB(r) /\ handle_send(r, bad_stream) /\ UNCHANGED running
    \/ \E r \in BagToSet(attempts) :
          CanBeC(r) /\ handle_send(r, success) /\ UNCHANGED running
    \/ \E r \in BagToSet(attempts) :
          /\ CanBeC(r)
          /\ handle_receive(r, success, ScenarioMessage)
          /\ UNCHANGED running
    \/ \E r \in BagToSet(attempts) :
          r.stop_requested /\ handle_stop(r, channel_stopped) /\ UNCHANGED running
    \/ \E a \in DOMAIN stores : handle_store(a, success) /\ UNCHANGED running

ScenarioSpec == ScenarioInit /\ [][ScenarioNext]_vars

\* Every delivery of the scenario has been made.
ScenarioDone ==
    /\ \E r \in BagToSet(attempts) : r.network_ = "error"
    /\ \E r \in BagToSet(attempts) : r.send = "error"
    /\ \E r \in BagToSet(attempts) :
          r.send = "ok" /\ r.address = "ok" /\ r.stop = channel_stopped
    /\ \A a \in DOMAIN stores : stores[a] = 0

\* C11: in the run with seeds A (connect refused), B (send fails) and C
\* (returns five addresses, two of them already known), once every delivery
\* is made the caller has received success, the registry has grown by
\* exactly three, and the barrier has received exactly three signals.
C11_ThreeSeedRun ==
    ScenarioDone =>
        /\ results = <<success>>
        /\ size = Cardinality(hosts_start) + 3
        /\ TotalSignals = 3

\* C12: the caller's handle_seeded is invoked only after every one of the
\* N >= 1 launched attempts has reached a terminal outcome and reported it
\* to the barrier.
C12_NoPrematureCompletion ==
    (seeds_ # <<>> /\ results # <<>>) =>
        \A r \in Attempts : r.network_ # "pending" /\ r.signals >= 1

\* The completion-callback calls of attempt r made by its connect, send and
\* receive handlers.
SignalsBesidesStop(r) ==
    (IF r.network_ = "error" THEN 1 ELSE 0)
        + (IF r.send = "error" THEN 1 ELSE 0)
        + (IF r.address \in {"ok", "error"} THEN 1 ELSE 0)

\* C13: a session-ended notification carrying the expected stop code,
\* channel_stopped, delivered to an attempt that has requested its stop (its
\* own stop request completing), adds no barrier signal.
C13_ExpectedStopNotSignalled ==
    [][\A r \in Attempts :
          (r.stop_requested /\ r.stop = "subscribed")
              => attempts' # replace(attempts, r,
                                 signalled([r EXCEPT !.stop = channel_stopped]))
    ]_vars

\* The completion-callback calls of attempt r made by handle_stop.
SignalsOfStop(r) ==
    IF r.stop \in {"none", "subscribed", success} THEN 0 ELSE 1

\* C14: an attempt whose address notification was delivered, with success or
\* with an error, has signalled the barrier with success in that handler
\* step: its signals are one more than those of handle_stop and handle_send,
\* whether or not a store it submitted has completed.
C14_ReceiveSignalsAtOnce ==
    /\ signal_codes \subseteq {success}
    /\ \A r \in Attempts :
          r.address \in {"ok", "error"} =>
              r.signals = 1 + SignalsOfStop(r)
                            + (IF r.send = "error" THEN 1 ELSE 0)

\* C14 witness: one attempt received a failure, another a list whose store
\* is still in flight, and both have signalled.
C14_Witness ==
    /\ \E r \in Attempts : r.address = "error" /\ r.signals = 1
    /\ \E r \in Attempts : r.address = "ok" /\ r.signals = 1
    /\ \E a \in Addresses : stores[a] > 0
    /\ barrier.fired

C16_ConnectErrorTerminates ==
    /\ signal_codes \subseteq {success}
    /\ \A r \in Attempts :
          r.network_ = "error" =>
              /\ r.signals = 1
              /\ r.trace = <<"handle_seeded">>
              /\ r.stop = "none"
              /\ r.handshake_ = "none"
              /\ r.send = "none"
              /\ r.address = "none"
              /\ ~r.stop_requested

\* C16 witness: one connect was refused while the other attempt went on to
\* receive a list.
C16_Witness ==
    /\ \E r \in Attempts : r.network_ = "error"
    /\ \E r \in Attempts : r.address = "ok"
    /\ TotalSignals >= 2

\* In seq, every call b comes after a call a.
Precedes(seq, a, b) ==
    \A j \in DOMAIN seq : seq[j] = b => \E i \in 1..(j - 1) : seq[i] = a

\* Call a occurs in seq.
Calls(seq, a) == \E i \in DOMAIN seq : seq[i] = a

\* C17: an address request was sent for an attempt only if its connect and
\* its handshake succeeded, and only after its address subscription was
\* registered.
C17_RequestAfterSubscription ==
    \A r \in Attempts :
        (r.send # "none" \/ Calls(r.trace, "send")) =>
            /\ r.network_ = "ok"
            /\ r.handshake_ = "ok"
            /\ r.address # "none"
            /\ Precedes(r.trace, "subscribe_address", "send")

\* C17 witness: one attempt's request was sent while another's handshake
\* failed after its connect had succeeded.
C17_Witness ==
    /\ \E r \in Attempts : r.send = "pending" /\ Calls(r.trace, "send")
    /\ \E r \in Attempts : r.handshake_ = "error" /\ r.send = "none"

\* C19: a session was started only after the session-ended observer and the
\* handshake handler were registered for it, so a started session has both.
C19_RegisteredBeforeStart ==
    \A r \in Attempts :
        Calls(r.trace, "start") =>
            /\ Precedes(r.trace, "subscribe_stop", "start")
            /\ Precedes(r.trace, "ready", "start")
            /\ r.stop # "none"
            /\ r.handshake_ # "none"

\* C19 witness: a started session whose two handlers both ran.
C19_Witness ==
    \E r \in Attempts :
        /\ Calls(r.trace, "start")
        /\ r.stop \in Errors
        /\ r.handshake_ = "ok"

\* C20: a stop was requested for an attempt only by handle_receive on a
\* successfully received list, after that handler had submitted the stores
\* and called the completion callback; an attempt whose handshake failed,
\* or whose receive failed, has no stop request, and a send failure adds
\* none.
C20_StopOnlyAfterReport ==
    \A r \in Attempts :
        /\ (r.stop_requested \/ Calls(r.trace, "stop")) =>
              /\ r.address = "ok"
              /\ r.stop_requested
              /\ r.signals >= 1
              /\ Precedes(r.trace, "store", "stop")
              /\ Precedes(r.trace, "handle_seeded", "stop")
        /\ (r.handshake_ = "error" \/ r.address \in {"error", "subscribed"})
              => ~r.stop_requested /\ ~Calls(r.trace, "stop")

\* C20 witness: a stop was requested after a list was received, while the
\* other attempt's send and receive failed without one.
C20_Witness ==
    /\ \E r \in Attempts : r.stop_requested /\ r.address = "ok"
    /\ \E r \in Attempts :
          r.send = "error" /\ r.address = "error" /\ ~r.stop_requested

\* The callbacks of an attempt after its connection.
PostConnection ==
    {"handle_stop", "handle_handshake", "handle_send", "handle_receive",
     "handle_store"}

\* The executions in progress of the handlers in S.
Executing(S) ==
    BagCardinality([h \in BagToSet(running) \cap S |-> running[h]])

\* C18: the session-ended, handshake, send, receive and store handlers are
\* serialized: at no time are two of them in execution, whatever the
\* contexts their events are raised from.
C18_HandlersSerialized == Executing(PostConnection) <= 1

\* C18 witness: handle_stop is executing while handle_connected has not yet
\* returned and the handshake completion of the same session is waiting.
C18_Witness ==
    /\ BagIn("handle_stop", running)
    /\ BagIn("handle_connected", running)
    /\ \E r \in Attempts : r.handshake_ = "pending"
    /\ Len(seeds_) = 1

====
